---------------------------- MODULE Spec2Model ----------------------------
(***************************************************************************)
(* A state-machine model of src/src/enc.rs: the Encoder of fdk-aac-rs.     *)
(*                                                                         *)
(* One behaviour is the life of one session: Encoder::new(params) (open,   *)
(* the parameter-set calls, commit), then any number of info() and         *)
(* encode() calls on the Encoder, then its drop.  The native engine, the   *)
(* input source and the output sink are the environment: every value they  *)
(* return is chosen with \E from the values their interface allows.        *)
(***************************************************************************)
EXTENDS Integers, Sequences, FiniteSets

(***************************************************************************)
(* Bounds of the model.                                                    *)
(***************************************************************************)
\* The largest number of non-empty reads the input source serves in one
\* encode; after that many it reports end of input (0 bytes) or fails.
MaxReads == 2

\* info.frameLength as the model's engine reports it (samples per channel).
FrameLengths == {1}

\* Constant bit rates and sample rates offered to Encoder::new.
CbrRates == {64000}
SampleRates == {44100}

\* The output sinks: "all" accepts every slice whole, "one" accepts at most
\* one byte of the slice a write call offers (a short write).
SinkKinds == {"all", "one"}

(***************************************************************************)
(* Engine status codes (the sys::AACENC_ERROR constants) used by enc.rs.    *)
(***************************************************************************)
\* 0x0000, 0x0020, 0x0060 and 0x0080 in the engine's header.
AACENC_OK == 0
AACENC_INVALID_HANDLE == 32
AACENC_ENCODE_ERROR == 96
AACENC_ENCODE_EOF == 128

\* The other codes EncoderError::message knows: 0x0021 to 0x0023 and
\* 0x0040 to 0x0045 in the engine's header.
AACENC_MEMORY_ERROR == 33
AACENC_UNSUPPORTED_PARAMETER == 34
AACENC_INVALID_CONFIG == 35
AACENC_INIT_ERROR == 64
AACENC_INIT_AAC_ERROR == 65
AACENC_INIT_SBR_ERROR == 66
AACENC_INIT_TP_ERROR == 67
AACENC_INIT_META_ERROR == 68
AACENC_INIT_MPS_ERROR == 69

\* The statuses the model's engine answers with.
EngineErrors == {AACENC_INVALID_HANDLE, AACENC_ENCODE_ERROR}
NonOkCodes == EngineErrors \cup {AACENC_ENCODE_EOF}
InfoCodes == {AACENC_OK} \cup EngineErrors
ProcessCodes == {AACENC_OK, AACENC_ENCODE_EOF} \cup EngineErrors

(***************************************************************************)
(* Results: Result<_, EncoderError>.                                       *)
(***************************************************************************)
NoInfo == [input_consumed |-> 0, output_size |-> 0]

Pending == [kind |-> "Pending", code |-> 0, info |-> NoInfo]

\* Ok(()) / Ok(Encoder) / Ok(InfoStruct): the payload is kept elsewhere.
OkUnit == [kind |-> "Ok", code |-> 0, info |-> NoInfo]

\* Ok(EncodeInfo { output_size, input_consumed })
OkInfo(consumed, written) ==
    [kind |-> "Ok", code |-> 0,
     info |-> [input_consumed |-> consumed, output_size |-> written]]

\* Err(EncoderError::FdkAac(e))
ErrFdkAac(e) == [kind |-> "FdkAac", code |-> e, info |-> NoInfo]

\* Err(EncoderError::Io(_)) through From<std::io::Error>
ErrIoAsEngineError ==
    [kind |-> "FdkAac", code |-> AACENC_ENCODE_ERROR, info |-> NoInfo]
ErrIo == [kind |-> "Io", code |-> 0, info |-> NoInfo]

\* fn check(e)
checkIgnoresStatus(e) == OkUnit
check(e) == IF e = AACENC_OK THEN OkUnit ELSE ErrFdkAac(e)

\* fn message(&self): the match on the variant and, for FdkAac, on the code
messageNoTransportArm(err) ==
    IF err.kind = "Io" THEN "io error"
    ELSE CASE err.code = AACENC_INVALID_HANDLE ->
                "Handle passed to function call was invalid."
           [] err.code = AACENC_MEMORY_ERROR -> "Memory allocation failed."
           [] err.code = AACENC_UNSUPPORTED_PARAMETER -> "Parameter not available."
           [] err.code = AACENC_INVALID_CONFIG -> "Configuration not provided."
           [] err.code = AACENC_INIT_ERROR -> "General initialization error."
           [] err.code = AACENC_INIT_AAC_ERROR ->
                "AAC library initialization error."
           [] err.code = AACENC_INIT_SBR_ERROR ->
                "SBR library initialization error."
           [] err.code = AACENC_INIT_META_ERROR ->
                "Meta data library initialization error."
           [] err.code = AACENC_INIT_MPS_ERROR ->
                "MPS library initialization error."
           [] err.code = AACENC_ENCODE_ERROR ->
                "The encoding process was interrupted by an unexpected error."
           [] OTHER -> "Unknown error"
message(err) ==
    IF err.kind = "Io" THEN "io error"
    ELSE CASE err.code = AACENC_INVALID_HANDLE ->
                "Handle passed to function call was invalid."
           [] err.code = AACENC_MEMORY_ERROR -> "Memory allocation failed."
           [] err.code = AACENC_UNSUPPORTED_PARAMETER -> "Parameter not available."
           [] err.code = AACENC_INVALID_CONFIG -> "Configuration not provided."
           [] err.code = AACENC_INIT_ERROR -> "General initialization error."
           [] err.code = AACENC_INIT_AAC_ERROR ->
                "AAC library initialization error."
           [] err.code = AACENC_INIT_SBR_ERROR ->
                "SBR library initialization error."
           [] err.code = AACENC_INIT_TP_ERROR ->
                "Transport library initialization error."
           [] err.code = AACENC_INIT_META_ERROR ->
                "Meta data library initialization error."
           [] err.code = AACENC_INIT_MPS_ERROR ->
                "MPS library initialization error."
           [] err.code = AACENC_ENCODE_ERROR ->
                "The encoding process was interrupted by an unexpected error."
           [] OTHER -> "Unknown error"

\* fn code(&self) of EncoderError (`code` alone names the status local of
\* encode below)
EncoderError_code(err) == IF err.kind = "FdkAac" THEN err.code ELSE 0

\* What a formatter has written: nothing yet, or the output of
\* Debug::fmt (code and message) or of Display::fmt (the message).
NotShown == [fmt |-> "none", code |-> 0, message |-> ""]

(***************************************************************************)
(* Engine calls, as logged: the function, what it was given, its status.   *)
(***************************************************************************)
Call(fn, param, value, ret) ==
    [fn |-> fn, param |-> param, value |-> value, ret |-> ret]

OpenCall(ret) == Call("aacEncOpen", "max_channels", 2, ret)
CloseCall == Call("aacEncClose", "none", 0, AACENC_OK)
InfoCall(ret) == Call("aacEncInfo", "none", 0, ret)
ProcessCall(numInSamples, ret) == Call("aacEncEncode", "data", numInSamples, ret)

(***************************************************************************)
(* EncoderParams and the parameter-set calls of Encoder::new.              *)
(***************************************************************************)
VbrTiers == {"VbrVeryLow", "VbrLow", "VbrMedium", "VbrHigh", "VbrVeryHigh"}

BitRates == {[tag |-> "Cbr", rate |-> b] : b \in CbrRates}
            \cup {[tag |-> t, rate |-> 0] : t \in VbrTiers}

Transports == {"Adts", "Raw"}

EncoderParamsSet ==
    [bit_rate : BitRates, sample_rate : SampleRates, transport : Transports]

NoParams == [bit_rate |-> [tag |-> "none", rate |-> 0], sample_rate |-> 0,
             transport |-> "none"]

\* the value of `bitrate_mode`, lines 132-142
BitrateMode(bit_rate) ==
    CASE bit_rate.tag = "Cbr" -> 0
      [] bit_rate.tag = "VbrVeryLow" -> 1
      [] bit_rate.tag = "VbrLow" -> 2
      [] bit_rate.tag = "VbrMedium" -> 3
      [] bit_rate.tag = "VbrHigh" -> 4
      [] bit_rate.tag = "VbrVeryHigh" -> 5

\* the arm of the match that sets AACENC_BITRATE, lines 133-136
BitrateCallsAlways(bit_rate) == << <<"AACENC_BITRATE", bit_rate.rate>> >>
BitrateCalls(bit_rate) ==
    IF bit_rate.tag = "Cbr" THEN << <<"AACENC_BITRATE", bit_rate.rate>> >>
    ELSE << >>

\* the TRANSMUX value, lines 148-151
Transmux(transport) == IF transport = "Adts" THEN 2 ELSE 0

\* The aacEncoder_SetParam calls of Encoder::new, in program order.
SetParamCalls(p) ==
    << <<"AACENC_AOT", 2>> >>
    \o BitrateCalls(p.bit_rate)
    \o << <<"AACENC_BITRATEMODE", BitrateMode(p.bit_rate)>>,
          <<"AACENC_SAMPLERATE", p.sample_rate>>,
          <<"AACENC_TRANSMUX", Transmux(p.transport)>>,
          <<"AACENC_SBR_MODE", 0>>,
          <<"AACENC_CHANNELMODE", 2>> >>

\* The engine calls of Encoder::new after the open, in program order: the
\* parameter-set calls, then the commit (aacEncEncode with null arguments).
NewStepsCommitEarly(p) ==
    << <<"aacEncoder_SetParam", "AACENC_AOT", 2>>,
       <<"aacEncEncode", "null", 0>> >>
    \o [i \in 1..(Len(SetParamCalls(p)) - 1) |->
          <<"aacEncoder_SetParam", SetParamCalls(p)[i + 1][1],
            SetParamCalls(p)[i + 1][2]>>]
NewSteps(p) ==
    [i \in 1..Len(SetParamCalls(p)) |->
        <<"aacEncoder_SetParam", SetParamCalls(p)[i][1], SetParamCalls(p)[i][2]>>]
    \o << <<"aacEncEncode", "null", 0>> >>

StepCall(s, ret) == Call(s[1], s[2], s[3], ret)

(***************************************************************************)
(* EncoderHandle: the Drop implementation.                                 *)
(***************************************************************************)
\* The engine calls made when an EncoderHandle goes out of scope.
DropLeaksHandle == << >>
DropCalls == << CloseCall >>

(***************************************************************************)
(* Encoder::encode: the pure parts.                                        *)
(***************************************************************************)
Min(a, b) == IF a <= b THEN a ELSE b

\* The casts of encode (`as c_int`, `as i32`, `as usize`) are the identity
\* on 0 .. 2^31 - 1, and every length of the model is far below 2^31.
AsCInt(x) == x
AsUsize(x) == x

\* Rust's integer division, which truncates toward zero.
TruncDiv(a, b) == IF a >= 0 THEN a \div b ELSE -((-a) \div b)

\* let buffer_len = 2*channels*info.frameLength as usize, channels = 2
BufferLenOneChannel(frameLength) == 2 * 1 * frameLength
BufferLen(frameLength) == 2 * 2 * frameLength

\* vec![0; buffer_len]
ZeroVec(len) == [j \in 1..len |-> 0]

\* in_args.numInSamples: input_len as i32 / 2
NumInSamplesIsBytes(input_len) == AsCInt(input_len)
NumInSamples(input_len) == TruncDiv(AsCInt(input_len), 2)

\* The bytes of the source and of the engine are told apart by where they
\* come from: byte j of read r, byte j of the output of process call c.
InByte(r, j) == 16 * r + j
OutByte(c, j) == 128 + 16 * c + j

\* The process call an output byte comes from.
OutCallOf(b) == (b - 128) \div 16

\* input.read(&mut input_buffer) returning n: the first n bytes are
\* overwritten, the rest of the buffer stays.
ReadIntoEnd(buf, r, n) ==
    [j \in 1..Len(buf) |->
       IF j > Len(buf) - n THEN InByte(r, j - (Len(buf) - n)) ELSE buf[j]]
ReadInto(buf, r, n) ==
    [j \in 1..Len(buf) |-> IF j <= n THEN InByte(r, j) ELSE buf[j]]

\* The engine writing m bytes through the output descriptor.
EngineWrites(buf, c, m) ==
    [j \in 1..Len(buf) |-> IF j <= m THEN OutByte(c, j) ELSE buf[j]]

\* if input_len == 0 { break; }
EndOfInputNever(input_len) == FALSE
EndOfInput(input_len) == input_len = 0

\* The engine calls between leaving the loop and returning Ok(EncodeInfo),
\* lines 244-248: none.
BreakFlushes == << ProcessCall(-1, AACENC_OK) >>
BreakCalls == << >>

\* The branch taken on the status of aacEncEncode, lines 230-236.
AfterProcessEofIsError(code) ==
    IF code # AACENC_OK THEN "return" ELSE "write"
AfterProcessErrorBreaks(code) ==
    IF code # AACENC_OK THEN "break" ELSE "write"
AfterProcessOkBreaks(code) ==
    IF code = AACENC_OK \/ code = AACENC_ENCODE_EOF THEN "break" ELSE "return"
AfterProcess(code) ==
    IF code # AACENC_OK
    THEN IF code = AACENC_ENCODE_EOF THEN "break" ELSE "return"
    ELSE "write"

\* the input descriptor and in_args of one process call, lines 189-216
InputDescWholeBuffer(buf, input_len) ==
    [bytes |-> buf,
     bufSize |-> AsCInt(Len(buf)),
     bufElSize |-> 2,
     numInSamples |-> NumInSamples(Len(buf))]
InputDesc(buf, input_len) ==
    [bytes |-> SubSeq(buf, 1, Min(input_len, Len(buf))),
     bufSize |-> AsCInt(input_len),
     bufElSize |-> 2,
     numInSamples |-> NumInSamples(input_len)]

\* the output descriptor, lines 201-211
OutputDesc(buf) == [bufSize |-> AsCInt(Len(buf)), bufElSize |-> 2]

NoArgs == [in |-> InputDesc(<< >>, 0), out |-> OutputDesc(<< >>)]

\* &output_buffer[0..output_size]
OutputSlice(buf, output_size) == SubSeq(buf, 1, output_size)

\* What a sink of the given kind takes of a slice in one write call.
Accepted(kind, slice) ==
    IF kind = "all" THEN slice ELSE SubSeq(slice, 1, Min(1, Len(slice)))

\* total_written_bytes += output_size (the count write() returns is dropped)
WrittenStep(output_size, accepted) == output_size

\* total_consumed_samples += input_consumed
ConsumedStepCountsBytes(input_consumed) == 2 * input_consumed
ConsumedStep(input_consumed) == input_consumed

NoOutArgs == [numInSamples |-> 0, numOutBytes |-> 0]

\* No InfoStruct: the query has not been made, or it failed.
NoGeometry == [frameLength |-> 0]

\* What the engine may report in out_args for an OK call: it consumes at
\* most the samples offered and fills at most the output descriptor.
OutArgsSet(in_samples, out_size) ==
    [numInSamples : 0..in_samples, numOutBytes : 0..out_size]

(***************************************************************************)
(* State.                                                                  *)
(***************************************************************************)
VARIABLES
    pc,         \* where the program is
    params,     \* the EncoderParams given to Encoder::new (until another
                \* call begins)
    step,       \* Encoder::new: the index in NewSteps of the next call
    handle,     \* the EncoderHandle: "none", "live" or "dropped"
    op,         \* the call in progress, or the last one that ended
    result,     \* what the last call of Encoder::new, info or encode returned
    calls,      \* the engine calls issued since that call began, in order
    opened,     \* aacEncOpen calls that returned OK
    closed,     \* aacEncClose calls
    commits,    \* commit calls of the session
    commitOk,   \* whether a commit returned OK
    \* the locals of the encode in progress
    input_buffer, output_buffer, input_len, out_args,
    total_consumed_samples, total_written_bytes,
    args,       \* the descriptors of the last process call
    info,       \* `info`, the geometry the query of this encode reported
    buffer_len, \* `buffer_len` of the current (or last) encode
    \* the collaborators and the history of the current (or last) encode
    sinkKind,   \* the kind of the output sink
    sink,       \* the bytes the output sink has received
    writes,     \* output.write calls
    readLens,   \* what each input.read returned: a length, or -1 (Err)
    offered,    \* the bytes each process call was given, one entry a call
    reported,   \* out_args of each process call that returned OK
    produced,   \* the bytes the engine produced in those calls, in order
    shown       \* what formatting the returned error has written

encVars == <<input_buffer, output_buffer, input_len, out_args,
             total_consumed_samples, total_written_bytes, args, info,
             buffer_len, sinkKind, sink, writes, readLens, offered, reported, produced>>

sessVars == <<opened, commits, commitOk>>

vars == <<pc, params, step, handle, op, result, calls, closed,
          sessVars, encVars, shown>>

\* No encode in progress, none remembered.
NoEncode ==
    /\ input_buffer = << >>
    /\ output_buffer = << >>
    /\ input_len = 0
    /\ out_args = NoOutArgs
    /\ total_consumed_samples = 0
    /\ total_written_bytes = 0
    /\ args = NoArgs
    /\ info = NoGeometry
    /\ buffer_len = 0
    /\ sinkKind = "all"
    /\ sink = << >>
    /\ writes = 0
    /\ readLens = << >>
    /\ offered = << >>
    /\ reported = << >>
    /\ produced = << >>

Init ==
    /\ params \in EncoderParamsSet
    /\ pc = "alloc"
    /\ step = 1
    /\ handle = "none"
    /\ op = "new"
    /\ result = Pending
    /\ calls = << >>
    /\ opened = 0
    /\ closed = 0
    /\ commits = 0
    /\ commitOk = FALSE
    /\ NoEncode
    /\ shown = NotShown

(***************************************************************************)
(* Encoder::new                                                            *)
(***************************************************************************)
\* An early return of Encoder::new with `handle` in scope: the `?` returns
\* the error and the EncoderHandle is dropped.
NewFails(call, r) ==
    /\ pc' = "failed"
    /\ result' = r
    /\ calls' = Append(calls, call) \o DropCalls
    /\ closed' = closed + Len(DropCalls)
    /\ handle' = "dropped"
    /\ step' = 0
    /\ UNCHANGED params

\* EncoderHandle::alloc(0, 2)?
Alloc ==
    /\ UNCHANGED shown
    /\ pc = "alloc"
    /\ \E e \in {AACENC_OK} \cup NonOkCodes :
         /\ calls' = Append(calls, OpenCall(e))
         /\ IF check(e).kind = "Ok"
            THEN /\ handle' = "live"
                 /\ opened' = opened + 1
                 /\ pc' = "configure"
                 /\ UNCHANGED <<result, step>>
            ELSE /\ result' = check(e)
                 /\ pc' = "failed"
                 /\ step' = 0
                 /\ UNCHANGED <<handle, opened>>
    /\ UNCHANGED <<params, op, closed, commits, commitOk, encVars>>

\* check(sys::aacEncoder_SetParam(handle.ptr, param, value))?
SetParam ==
    /\ UNCHANGED shown
    /\ pc = "configure"
    /\ handle = "live"
    /\ step <= Len(NewSteps(params))
    /\ NewSteps(params)[step][1] = "aacEncoder_SetParam"
    /\ \E e \in {AACENC_OK} \cup NonOkCodes :
         LET call == StepCall(NewSteps(params)[step], e) IN
         IF check(e).kind = "Ok"
         THEN /\ calls' = Append(calls, call)
              /\ IF step = Len(NewSteps(params))
                 THEN /\ result' = OkUnit
                      /\ pc' = "ready"
                      /\ step' = 0
                 ELSE /\ step' = step + 1
                      /\ UNCHANGED <<pc, result>>
              /\ UNCHANGED <<closed, handle>>
         ELSE NewFails(call, check(e))
    /\ UNCHANGED <<params, op, sessVars, encVars>>

\* check(sys::aacEncEncode(handle.ptr, null, null, null, null))?
\* and, as the last step, Ok(Encoder { handle })
Commit ==
    /\ UNCHANGED shown
    /\ pc = "configure"
    /\ handle = "live"
    /\ step <= Len(NewSteps(params))
    /\ NewSteps(params)[step][1] = "aacEncEncode"
    /\ commits' = commits + 1
    /\ \E e \in {AACENC_OK} \cup NonOkCodes :
         LET call == StepCall(NewSteps(params)[step], e) IN
         /\ commitOk' = (commitOk \/ e = AACENC_OK)
         /\ IF check(e).kind = "Ok"
            THEN /\ calls' = Append(calls, call)
                 /\ IF step = Len(NewSteps(params))
                    THEN /\ result' = OkUnit
                         /\ pc' = "ready"
                         /\ step' = 0
                    ELSE /\ step' = step + 1
                         /\ UNCHANGED <<pc, result>>
                 /\ UNCHANGED <<closed, handle>>
            ELSE NewFails(call, check(e))
    /\ UNCHANGED <<params, op, opened, encVars>>

\* Another call begins: what is remembered of the last encode is let go.
ForgetEncode ==
    /\ input_buffer' = << >>
    /\ output_buffer' = << >>
    /\ input_len' = 0
    /\ out_args' = NoOutArgs
    /\ total_consumed_samples' = 0
    /\ total_written_bytes' = 0
    /\ args' = NoArgs
    /\ info' = NoGeometry
    /\ buffer_len' = 0
    /\ sinkKind' = "all"
    /\ sink' = << >>
    /\ writes' = 0
    /\ readLens' = << >>
    /\ offered' = << >>
    /\ reported' = << >>
    /\ produced' = << >>

(***************************************************************************)
(* Encoder::info                                                           *)
(***************************************************************************)
Info ==
    /\ UNCHANGED shown
    /\ pc = "ready"
    /\ handle = "live"
    /\ op' = "info"
    /\ \E e \in InfoCodes :
         /\ calls' = << InfoCall(e) >>
         /\ result' = check(e)
    /\ ForgetEncode
    /\ params' = NoParams
    /\ UNCHANGED <<pc, step, handle, closed, sessVars>>

(***************************************************************************)
(* Encoder::encode                                                         *)
(***************************************************************************)
\* Leaving encode: the buffers and the other locals go out of scope.
Return(r) ==
    /\ pc' = "ready"
    /\ result' = r
    /\ input_buffer' = << >>
    /\ output_buffer' = << >>
    /\ input_len' = 0
    /\ out_args' = NoOutArgs
    /\ total_consumed_samples' = 0
    /\ total_written_bytes' = 0

\* let info = self.info()?; and the allocation of the two buffers
EncodeBegin ==
    /\ UNCHANGED shown
    /\ pc = "ready"
    /\ handle = "live"
    /\ op' = "encode"
    /\ args' = NoArgs
    /\ sink' = << >>
    /\ writes' = 0
    /\ readLens' = << >>
    /\ offered' = << >>
    /\ reported' = << >>
    /\ produced' = << >>
    /\ \E k \in SinkKinds : sinkKind' = k
    /\ \E e \in InfoCodes :
         /\ calls' = << InfoCall(e) >>
         /\ IF check(e).kind = "Ok"
            THEN \E frameLength \in FrameLengths :
                   /\ info' = [frameLength |-> frameLength]
                   /\ buffer_len' = BufferLen(frameLength)
                   /\ input_buffer' = ZeroVec(BufferLen(frameLength))
                   /\ output_buffer' = ZeroVec(BufferLen(frameLength))
                   /\ input_len' = 0
                   /\ out_args' = NoOutArgs
                   /\ total_consumed_samples' = 0
                   /\ total_written_bytes' = 0
                   /\ result' = Pending
                   /\ pc' = "read"
            ELSE /\ Return(check(e))
                 /\ info' = NoGeometry
                 /\ buffer_len' = 0
    /\ params' = NoParams
    /\ UNCHANGED <<step, handle, closed, sessVars>>

\* let input_len = input.read(&mut input_buffer)?; if input_len == 0 { break; }
Read ==
    /\ UNCHANGED shown
    /\ pc = "read"
    /\ \/ \E n \in 0..Len(input_buffer) :
            /\ n > 0 => Len(SelectSeq(readLens, LAMBDA x : x > 0)) < MaxReads
            /\ readLens' = Append(readLens, n)
            /\ IF EndOfInput(n)
               THEN /\ Return(OkInfo(total_consumed_samples, total_written_bytes))
                    /\ calls' = calls \o BreakCalls
                    /\ UNCHANGED <<args>>
               ELSE /\ input_buffer' = ReadInto(input_buffer, Len(readLens) + 1, n)
                    /\ input_len' = n
                    /\ pc' = "process"
                    /\ UNCHANGED <<result, output_buffer, out_args, args,
                                   total_consumed_samples, total_written_bytes,
                                   calls>>
       \/ /\ readLens' = Append(readLens, -1)
          /\ Return(ErrIo)
          /\ UNCHANGED <<args, calls>>
    /\ UNCHANGED <<params, step, handle, op, closed, sessVars,
                   info, buffer_len, sinkKind, sink, writes, offered, reported,
                   produced>>

\* the descriptors, sys::aacEncEncode(handle, &input_desc, &output_desc,
\* &in_args, &mut out_args), and the branch on its status
Process ==
    /\ UNCHANGED shown
    /\ pc = "process"
    /\ handle = "live"
    /\ LET a == [in |-> InputDesc(input_buffer, input_len),
                 out |-> OutputDesc(output_buffer)]
           c == Len(offered) + 1
       IN
       /\ args' = a
       /\ offered' = Append(offered, a.in.bytes)
       /\ \E code \in ProcessCodes :
            /\ calls' = Append(calls, ProcessCall(a.in.numInSamples, code))
                        \o (IF AfterProcess(code) = "break"
                            THEN BreakCalls ELSE << >>)
            /\ CASE AfterProcess(code) = "write" ->
                      \E o \in OutArgsSet(a.in.numInSamples, a.out.bufSize) :
                        /\ out_args' = o
                        /\ output_buffer' =
                             EngineWrites(output_buffer, c, o.numOutBytes)
                        /\ reported' = Append(reported, o)
                        /\ produced' = produced \o
                             SubSeq(EngineWrites(output_buffer, c, o.numOutBytes),
                                    1, o.numOutBytes)
                        /\ pc' = "write"
                        /\ UNCHANGED <<result, input_buffer, input_len,
                                       total_consumed_samples,
                                       total_written_bytes>>
                 [] AfterProcess(code) = "break" ->
                      /\ Return(OkInfo(total_consumed_samples,
                                       total_written_bytes))
                      /\ UNCHANGED <<reported, produced>>
                 [] AfterProcess(code) = "return" ->
                      /\ Return(ErrFdkAac(code))
                      /\ UNCHANGED <<reported, produced>>
    /\ UNCHANGED <<params, step, handle, op, closed, sessVars,
                   info, buffer_len, sinkKind, sink, writes, readLens>>

\* output.write(&output_buffer[0..output_size])?; and the two totals
WriteNeverReturns ==
    /\ pc = "write"
    /\ UNCHANGED vars
Write ==
    /\ UNCHANGED shown
    /\ pc = "write"
    /\ LET input_consumed == AsUsize(out_args.numInSamples)
           output_size == AsUsize(out_args.numOutBytes)
           slice == OutputSlice(output_buffer, output_size)
       IN
       /\ writes' = writes + 1
       /\ \/ /\ sink' = sink \o Accepted(sinkKind, slice)
             /\ total_consumed_samples' =
                  total_consumed_samples + ConsumedStep(input_consumed)
             /\ total_written_bytes' =
                  total_written_bytes
                  + WrittenStep(output_size, Len(Accepted(sinkKind, slice)))
             /\ pc' = "read"
             /\ UNCHANGED <<result, input_buffer, output_buffer, input_len,
                            out_args>>
          \/ /\ Return(ErrIo)
             /\ UNCHANGED sink
    /\ UNCHANGED <<params, step, handle, op, calls, closed, sessVars, args,
                   info, buffer_len, sinkKind, readLens, offered, reported,
                   produced>>

(***************************************************************************)
(* Drop of the Encoder (and with it of its EncoderHandle).                 *)
(***************************************************************************)
DropKeepsEncoder ==
    /\ pc = "ready"
    /\ handle = "live"
    /\ closed = 0
    /\ op' = "drop"
    /\ calls' = DropCalls
    /\ closed' = closed + Len(DropCalls)
    /\ ForgetEncode
    /\ params' = NoParams
    /\ UNCHANGED <<pc, handle, step, result, sessVars, shown>>
Drop ==
    /\ UNCHANGED shown
    /\ pc = "ready"
    /\ handle = "live"
    /\ op' = "drop"
    /\ calls' = DropCalls
    /\ closed' = closed + Len(DropCalls)
    /\ handle' = "dropped"
    /\ pc' = "dropped"
    /\ ForgetEncode
    /\ params' = NoParams
    /\ UNCHANGED <<step, result, sessVars>>

Next ==
    \/ Alloc
    \/ SetParam
    \/ Commit
    \/ Info
    \/ EncodeBegin
    \/ Read
    \/ Process
    \/ Write
    \/ Drop

Spec == Init /\ [][Next]_vars

(***************************************************************************)
(* Formatting a returned error: Debug::fmt and Display::fmt.  A call has   *)
(* returned Err(e) for some status of the engine or for an I/O failure;    *)
(* the caller formats e, any number of times.                              *)
(***************************************************************************)
\* The statuses (sys::AACENC_ERROR is a u32) the errors are built from.
MaxCode == 255
Codes == 0..MaxCode

\* The codes with a message of their own.
KnownCodes ==
    {AACENC_INVALID_HANDLE, AACENC_MEMORY_ERROR, AACENC_UNSUPPORTED_PARAMETER,
     AACENC_INVALID_CONFIG, AACENC_INIT_ERROR, AACENC_INIT_AAC_ERROR,
     AACENC_INIT_SBR_ERROR, AACENC_INIT_TP_ERROR, AACENC_INIT_META_ERROR,
     AACENC_INIT_MPS_ERROR, AACENC_ENCODE_ERROR}

\* The errors a call can return: check(e) for a status that is not OK (the
\* match in encode builds the same value), or an I/O error.
Errors == {check(e) : e \in Codes \ {AACENC_OK}} \cup {ErrIo}

ErrInit ==
    /\ result \in Errors
    /\ shown = NotShown
    /\ pc = "returned"
    /\ params = NoParams
    /\ step = 0
    /\ handle = "none"
    /\ op = "fmt"
    /\ calls = << >>
    /\ opened = 0
    /\ closed = 0
    /\ commits = 0
    /\ commitOk = FALSE
    /\ NoEncode

\* write!(f, "EncoderError {{ code: {:?}, message: {:?} }}", ..)
DebugFmt ==
    /\ pc = "returned"
    /\ shown' = [fmt |-> "Debug", code |-> EncoderError_code(result),
                 message |-> message(result)]
    /\ UNCHANGED <<pc, params, step, handle, op, result, calls, closed,
                   sessVars, encVars>>

\* write!(f, "{}", self.message())
DisplayFmt ==
    /\ pc = "returned"
    /\ shown' = [fmt |-> "Display", code |-> 0, message |-> message(result)]
    /\ UNCHANGED <<pc, params, step, handle, op, result, calls, closed,
                   sessVars, encVars>>

ErrNext ==
    \/ DebugFmt
    \/ DisplayFmt

ErrSpec == ErrInit /\ [][ErrNext]_vars

(***************************************************************************)
(* Properties.                                                             *)
(***************************************************************************)
Last(seq) == seq[Len(seq)]

\* The Encoder is gone: Encoder::new failed, or the Encoder was dropped.
SessionOver == pc \in {"failed", "dropped"}

\* The last encode has returned.
EncodeReturned == op = "encode" /\ pc = "ready"

\* C1: aacEncClose is issued exactly once for a handle that aacEncOpen
\* opened and never when aacEncOpen failed: while the session lives there
\* is no close, and once it is over (a failed Encoder::new, or the drop of
\* the Encoder after whatever its encodes returned) the closes are as many
\* as the successful opens, which is at most one.
C1_CloseExactlyOnce ==
    /\ opened <= 1
    /\ closed <= opened
    /\ SessionOver => closed = opened
    /\ ~SessionOver => closed = 0

\* a parameter-set call failed inside Encoder::new and the handle is closed
C1_Witness ==
    /\ pc = "failed"
    /\ opened = 1
    /\ closed = 1
    /\ \E i \in 1..Len(calls) :
         calls[i].fn = "aacEncoder_SetParam" /\ calls[i].ret # AACENC_OK

\* an Encoder dropped after an encode that returned an I/O error
C1_WitnessIo ==
    pc = "dropped" /\ result.kind = "Io" /\ closed = 1

\* The engine calls `seq` that are commit calls (aacEncEncode, all null).
IsCommit(c) == c.fn = "aacEncEncode" /\ c.param = "null"
IsSetParam(c) == c.fn = "aacEncoder_SetParam"
IsProcess(c) == c.fn = "aacEncEncode" /\ c.param = "data"

\* An Encoder value exists (Encoder::new returned Ok) or existed.
EncoderBuilt == pc \in {"ready", "read", "process", "write", "dropped"}

\* C2: the commit call is issued exactly once per session, after every
\* parameter-set call and before any data process call, encode never issues
\* it again, and data is only ever processed on a session whose commit
\* returned OK.  In the log of Encoder::new a commit is preceded by the open
\* and all the parameter-set calls, each OK, and by no data call, and is
\* followed by nothing but the close; the session never counts more than
\* one commit; and wherever an Encoder exists or data is processed, the
\* count is one and that commit returned OK.
C2_CommitOnce ==
    /\ commits <= 1
    /\ op = "new" =>
         /\ Cardinality({i \in 1..Len(calls) : IsCommit(calls[i])}) = commits
         /\ \A i \in 1..Len(calls) :
              IsCommit(calls[i]) =>
                /\ i = Len(SetParamCalls(params)) + 2
                /\ \A j \in 2..(i - 1) :
                     IsSetParam(calls[j]) /\ calls[j].ret = AACENC_OK
                /\ \A j \in (i + 1)..Len(calls) : calls[j] = CloseCall
    /\ op = "new" => \A i \in 1..Len(calls) : ~IsProcess(calls[i])
    /\ EncoderBuilt => commits = 1 /\ commitOk
    /\ \A i \in 1..Len(calls) : IsProcess(calls[i]) => commits = 1 /\ commitOk

\* an encode has issued its second data call, one commit behind it
C2_Witness ==
    /\ op = "encode"
    /\ Len(offered) = 2
    /\ IsProcess(Last(calls))
    /\ commits = 1

\* The engine calls of a successful Encoder::new, as the claim lists them.
C3_TierCode(tag) ==
    CASE tag = "VbrVeryLow" -> 1
      [] tag = "VbrLow" -> 2
      [] tag = "VbrMedium" -> 3
      [] tag = "VbrHigh" -> 4
      [] tag = "VbrVeryHigh" -> 5

C3_Expected(p) ==
    << Call("aacEncOpen", "max_channels", 2, AACENC_OK),
       Call("aacEncoder_SetParam", "AACENC_AOT", 2, AACENC_OK) >>
    \o (IF p.bit_rate.tag = "Cbr"
        THEN << Call("aacEncoder_SetParam", "AACENC_BITRATE",
                     p.bit_rate.rate, AACENC_OK),
                Call("aacEncoder_SetParam", "AACENC_BITRATEMODE", 0,
                     AACENC_OK) >>
        ELSE << Call("aacEncoder_SetParam", "AACENC_BITRATEMODE",
                     C3_TierCode(p.bit_rate.tag), AACENC_OK) >>)
    \o << Call("aacEncoder_SetParam", "AACENC_SAMPLERATE", p.sample_rate,
               AACENC_OK),
          Call("aacEncoder_SetParam", "AACENC_TRANSMUX",
               IF p.transport = "Adts" THEN 2 ELSE 0, AACENC_OK),
          Call("aacEncoder_SetParam", "AACENC_SBR_MODE", 0, AACENC_OK),
          Call("aacEncoder_SetParam", "AACENC_CHANNELMODE", 2, AACENC_OK),
          Call("aacEncEncode", "null", 0, AACENC_OK) >>

\* C3: when every engine call succeeds, Encoder::new issues exactly: open,
\* audio object type, (bit rate and bit-rate-mode 0 for Cbr | bit-rate-mode
\* with the tier's code for a Vbr tier), sample rate, framing mode,
\* bandwidth extension off, channel mode 2, commit; nothing twice, nothing
\* else.  While it is under way the log is a prefix of that list.
C3_ConfigurationOrder ==
    /\ (op = "new" /\ pc = "ready") => calls = C3_Expected(params)
    /\ pc = "configure" =>
         /\ Len(calls) < Len(C3_Expected(params))
         /\ calls = SubSeq(C3_Expected(params), 1, Len(calls))

\* Encoder::new has returned Ok for a Vbr tier with raw framing
C3_Witness ==
    /\ op = "new"
    /\ pc = "ready"
    /\ params.bit_rate.tag = "VbrVeryHigh"
    /\ params.transport = "Raw"
    /\ Len(calls) = 8

\* Encoder::new has returned Ok for a constant bit rate
C3_WitnessCbr ==
    op = "new" /\ pc = "ready" /\ params.bit_rate.tag = "Cbr" /\ Len(calls) = 9

\* C4: if a step of Encoder::new (open, a parameter-set call, commit)
\* returns a non-OK code, Encoder::new returns the error with exactly that
\* code, the steps before it are the configured ones and all OK, nothing
\* follows it but the close of an opened handle (no later step, no commit),
\* and there is no Encoder: no call of any kind is possible any more.
C4_FailureAborts ==
    op = "new" =>
      \A i \in 1..Len(calls) :
        calls[i].ret # AACENC_OK =>
          /\ pc = "failed"
          /\ result = [kind |-> "FdkAac", code |-> calls[i].ret, info |-> NoInfo]
          /\ [j \in 1..i |-> [calls[j] EXCEPT !.ret = AACENC_OK]]
               = SubSeq(C3_Expected(params), 1, i)
          /\ \A j \in 1..(i - 1) : calls[j].ret = AACENC_OK
          /\ SubSeq(calls, i + 1, Len(calls))
               = IF i = 1 THEN << >> ELSE << CloseCall >>
          /\ ~IsCommit(calls[i]) => commits = 0
          /\ ~ENABLED Next

\* the commit call failed with the encode-error code
C4_Witness ==
    /\ pc = "failed"
    /\ result = [kind |-> "FdkAac", code |-> AACENC_ENCODE_ERROR, info |-> NoInfo]
    /\ Len(calls) >= 2
    /\ IsCommit(calls[Len(calls) - 1])
    /\ calls[Len(calls) - 1].ret = AACENC_ENCODE_ERROR
    /\ Last(calls) = CloseCall

RECURSIVE SumSeq(_)
SumSeq(seq) == IF seq = << >> THEN 0 ELSE seq[1] + SumSeq(Tail(seq))

\* The bytes the source has handed over in the current encode.
BytesRead == SumSeq([i \in 1..Len(readLens) |->
                       IF readLens[i] > 0 THEN readLens[i] ELSE 0])

\* What the engine reported over the OK process calls of the encode.
SamplesReported == SumSeq([i \in 1..Len(reported) |-> reported[i].numInSamples])
BytesReported == SumSeq([i \in 1..Len(reported) |-> reported[i].numOutBytes])

\* C5: when the source yields k full chunks and then 0 bytes and the engine
\* returns OK on every call, encode has returned Ok after exactly k process
\* calls, each offered a full chunk: the engine saw the geometry query and
\* those k calls and nothing else (no call after the 0-byte read).
C5_FullChunksThenEof ==
    ( /\ op = "encode"
      /\ readLens # << >>
      /\ Last(readLens) = 0
      /\ \A i \in 1..(Len(readLens) - 1) : readLens[i] = buffer_len
      /\ \A i \in 1..Len(calls) : calls[i].ret = AACENC_OK )
    =>
    LET k == Len(readLens) - 1 IN
      /\ EncodeReturned
      /\ result.kind = "Ok"
      /\ Len(offered) = k
      /\ calls =
           << Call("aacEncInfo", "none", 0, AACENC_OK) >>
           \o [i \in 1..k |->
                Call("aacEncEncode", "data", buffer_len \div 2, AACENC_OK)]

\* two full chunks, then end of input
C5_Witness ==
    /\ EncodeReturned
    /\ buffer_len > 0
    /\ readLens = << buffer_len, buffer_len, 0 >>
    /\ result.kind = "Ok"
    /\ Len(offered) = 2

\* C6: if process call i returns LogicalEndOfStream, encode has returned Ok
\* with the totals of the calls before it, call i is the last engine call
\* and the last read is the one before it, there was no write for call i
\* and no byte of call i is in the sink.
C6_EofEndsCleanly ==
    op = "encode" =>
      \A i \in 1..Len(calls) :
        (IsProcess(calls[i]) /\ calls[i].ret = AACENC_ENCODE_EOF) =>
          /\ EncodeReturned
          /\ result = [kind |-> "Ok", code |-> 0,
                       info |-> [input_consumed |-> SamplesReported,
                                 output_size |-> BytesReported]]
          /\ i = Len(calls)
          /\ Len(reported) = Len(offered) - 1
          /\ writes = Len(offered) - 1
          /\ Len(readLens) = Len(offered)
          /\ \A b \in 1..Len(sink) : OutCallOf(sink[b]) < Len(offered)

\* LogicalEndOfStream on the second call, after a call that produced output
C6_Witness ==
    /\ EncodeReturned
    /\ Len(offered) = 2
    /\ IsProcess(Last(calls))
    /\ Last(calls).ret = AACENC_ENCODE_EOF
    /\ result.kind = "Ok"
    /\ result.info.output_size > 0
    /\ result.info.input_consumed > 0

\* What the sink took of the output of the OK calls so far, call by call.
RECURSIVE SinkTook(_)
SinkTook(c) ==
    IF c = 0 THEN << >>
    ELSE SinkTook(c - 1)
         \o Accepted(sinkKind,
                     [j \in 1..reported[c].numOutBytes |-> OutByte(c, j)])

\* C7: if process call i returns a status that is neither OK nor
\* LogicalEndOfStream, encode has returned the engine error with exactly
\* that code, call i is the last engine call, no read and no write follow
\* it, and the sink holds what was written for calls 1..i-1 and nothing of
\* call i.
C7_EngineErrorEndsEncode ==
    op = "encode" =>
      \A i \in 1..Len(calls) :
        ( /\ IsProcess(calls[i])
          /\ calls[i].ret \notin {AACENC_OK, AACENC_ENCODE_EOF} ) =>
          /\ EncodeReturned
          /\ result = [kind |-> "FdkAac", code |-> calls[i].ret, info |-> NoInfo]
          /\ i = Len(calls)
          /\ Len(readLens) = Len(offered)
          /\ Len(reported) = Len(offered) - 1
          /\ writes = Len(offered) - 1
          /\ sink = SinkTook(Len(offered) - 1)

\* an engine error on the second call, after a call whose output was written
C7_Witness ==
    /\ EncodeReturned
    /\ Len(offered) = 2
    /\ result = [kind |-> "FdkAac", code |-> AACENC_ENCODE_ERROR, info |-> NoInfo]
    /\ sink # << >>

\* C8: for every process call that returned OK the sink receives exactly the
\* bytes_produced first bytes of the scratch buffer, in call order, whatever
\* the sink: between iterations and after the return (a failed write
\* apart) the sink holds the concatenation of the produced prefixes, and
\* the output total is the number of bytes the sink received.
C8_SinkReceivesProduced ==
    ( /\ op = "encode"
      /\ pc \in {"read", "ready"}
      /\ result.kind # "Io" )
    =>
      /\ sink = produced
      /\ pc = "read" => total_written_bytes = Len(sink)
      /\ (EncodeReturned /\ result.kind = "Ok")
           => result.info.output_size = Len(sink)

\* C9: input_consumed, while the encode runs and in the EncodeInfo it
\* returns, is at most the number of 16-bit samples read so far, the bytes
\* read divided by 2.
C9_ConsumedAtMostRead ==
    op = "encode" =>
      /\ total_consumed_samples <= BytesRead \div 2
      /\ SamplesReported <= BytesRead \div 2
      /\ (EncodeReturned /\ result.kind = "Ok")
           => result.info.input_consumed <= BytesRead \div 2

\* an odd read and a full read, every offered sample consumed
C9_Witness ==
    /\ EncodeReturned
    /\ result.kind = "Ok"
    /\ \E i \in 1..Len(readLens) : readLens[i] % 2 = 1
    /\ result.info.input_consumed > 0
    /\ result.info.input_consumed = SumSeq([i \in 1..Len(readLens) |->
                                      IF readLens[i] > 0
                                      THEN readLens[i] \div 2 ELSE 0])

\* C10: when the first read of an encode returns 0 bytes, the encode
\* returns Ok(EncodeInfo { input_consumed: 0, output_size: 0 }) with no
\* process call and no write.
C10_ImmediateEof ==
    (op = "encode" /\ readLens # << >> /\ readLens[1] = 0) =>
      /\ EncodeReturned
      /\ result = [kind |-> "Ok", code |-> 0,
                   info |-> [input_consumed |-> 0, output_size |-> 0]]
      /\ readLens = << 0 >>
      /\ \A i \in 1..Len(calls) : ~IsProcess(calls[i])
      /\ offered = << >>
      /\ writes = 0
      /\ sink = << >>

\* an encode met an empty source and has returned
C10_Witness ==
    /\ op = "encode"
    /\ pc = "ready"
    /\ readLens = << 0 >>
    /\ result.kind = "Ok"

\* The read that ended the encode returned Err.
ReadFailed == op = "encode" /\ readLens # << >> /\ Last(readLens) = -1

\* The encode returned straight from a write: a write that returns Ok goes
\* back to the read at the top of the loop, so an encode that has returned
\* with as many reads as writes returned from the write.
WriteFailed ==
    EncodeReturned /\ writes > 0 /\ Len(readLens) = writes

\* C11: a failing read or a failing write makes encode return at once with
\* EncoderError::Io, never with an engine-code error, and no read, process
\* call or write follows: after a failed read every earlier read has had
\* its process call and its write and nothing more, after a failed write
\* the sink holds what the earlier writes put there.  Conversely no call
\* whose engine status was not OK ends in an I/O error, and only encode
\* returns one.
C11_IoErrorsAreIo ==
    /\ ReadFailed =>
         /\ EncodeReturned
         /\ result = [kind |-> "Io", code |-> 0, info |-> NoInfo]
         /\ \A i \in 1..(Len(readLens) - 1) : readLens[i] > 0
         /\ Len(offered) = Len(readLens) - 1
         /\ Len(reported) = Len(offered)
         /\ writes = Len(offered)
         /\ Len(calls) = 1 + Len(offered)
    /\ WriteFailed =>
         /\ result = [kind |-> "Io", code |-> 0, info |-> NoInfo]
         /\ Len(offered) = writes
         /\ Len(reported) = writes
         /\ Len(calls) = 1 + Len(offered)
         /\ sink = SinkTook(writes - 1)
    /\ result.kind = "Io" =>
         /\ op \in {"encode", "drop"}
         /\ op = "encode" => (ReadFailed \/ WriteFailed)
    /\ (\E i \in 1..Len(calls) : calls[i].ret # AACENC_OK)
         => result.kind # "Io"

\* the second write of an encode failed, the first one had reached the sink
C11_Witness ==
    /\ WriteFailed
    /\ writes = 2
    /\ result.kind = "Io"
    /\ sink # << >>
    /\ Last(readLens) > 0

\* the second read of an encode failed
C11_WitnessRead ==
    /\ ReadFailed
    /\ Len(readLens) = 2
    /\ result.kind = "Io"
    /\ writes = 1

\* C12: for every engine error code c the error built from c reports c
\* unchanged as its numeric code; each of the eleven known codes has a
\* message of its own, no two of them alike and none the catch-all, and
\* every other code has the message "Unknown error"; and the numeric code
\* reported for an I/O error is the code of no engine-reported failure.
\* Stated of what Debug::fmt and Display::fmt write for the returned error,
\* and of the two functions over all the codes.
C12_CodesAndMessages ==
    /\ Cardinality(KnownCodes) = 11
    /\ \A c \in Codes \ {AACENC_OK} :
         /\ EncoderError_code(check(c)) = c
         /\ c \notin KnownCodes => message(check(c)) = "Unknown error"
         /\ c \in KnownCodes =>
              /\ message(check(c)) \notin {"Unknown error", "io error", ""}
              /\ \A d \in KnownCodes \ {c} :
                   message(check(d)) # message(check(c))
    /\ \A c \in Codes \ {AACENC_OK} :
         EncoderError_code(ErrIo) # EncoderError_code(check(c))
    /\ shown.fmt = "Debug" =>
         /\ result.kind = "FdkAac" => shown.code = result.code
         /\ result.kind = "Io" =>
              \A c \in Codes \ {AACENC_OK} : shown.code # check(c).code
    /\ shown.fmt \in {"Debug", "Display"} =>
         /\ (result.kind = "FdkAac" /\ result.code \notin KnownCodes)
              => shown.message = "Unknown error"
         /\ (result.kind = "FdkAac" /\ result.code \in KnownCodes)
              => /\ shown.message # "Unknown error"
                 /\ \A d \in KnownCodes \ {result.code} :
                      shown.message # message(ErrFdkAac(d))

\* the transport-initialization error has been written by Debug::fmt
C12_Witness ==
    /\ shown.fmt = "Debug"
    /\ result.kind = "FdkAac"
    /\ result.code = AACENC_INIT_TP_ERROR
    /\ shown.code = AACENC_INIT_TP_ERROR
    /\ shown.message = "Transport library initialization error."

\* an I/O error has been written by Debug::fmt
C12_WitnessIo ==
    shown.fmt = "Debug" /\ result.kind = "Io" /\ shown.message = "io error"

\* an error with a code outside the known set has been written
C12_WitnessUnknown ==
    /\ shown.fmt = "Display"
    /\ result.kind = "FdkAac"
    /\ result.code = AACENC_ENCODE_EOF
    /\ shown.message = "Unknown error"

\* The reports of the OK process calls whose write has returned Ok.
Settled == IF pc = "write" THEN SubSeq(reported, 1, Len(reported) - 1)
           ELSE reported

\* C13: the two totals start at zero and change only after an OK process
\* call, by exactly the samples_consumed and bytes_produced that call
\* reported (not by what was offered), so they never decrease; and the
\* EncodeInfo of an encode that returns Ok holds the sums over all its OK
\* calls.  While the encode runs the totals are the sums of the reports of
\* the OK calls so far, the one whose write is still to come left out.
C13_TotalsAreSums ==
    /\ (op = "encode" /\ pc \in {"read", "process", "write"}) =>
         /\ total_consumed_samples =
              SumSeq([i \in 1..Len(Settled) |-> Settled[i].numInSamples])
         /\ total_written_bytes =
              SumSeq([i \in 1..Len(Settled) |-> Settled[i].numOutBytes])
         /\ reported = << >> =>
              total_consumed_samples = 0 /\ total_written_bytes = 0
         /\ Len(reported) =
              Cardinality({i \in 1..Len(calls) :
                             IsProcess(calls[i]) /\ calls[i].ret = AACENC_OK})
    /\ (EncodeReturned /\ result.kind = "Ok") =>
         /\ result.info.input_consumed = SamplesReported
         /\ result.info.output_size = BytesReported
         /\ Len(reported) =
              Cardinality({i \in 1..Len(calls) :
                             IsProcess(calls[i]) /\ calls[i].ret = AACENC_OK})

\* an encode returned Ok after two OK calls, the engine having consumed
\* less than it was offered and produced less than the buffer holds
C13_Witness ==
    /\ EncodeReturned
    /\ result.kind = "Ok"
    /\ Len(reported) = 2
    /\ result.info.input_consumed > 0
    /\ result.info.input_consumed
         < SumSeq([i \in 1..Len(offered) |-> Len(offered[i]) \div 2])
    /\ result.info.output_size > 0
    /\ result.info.output_size < 2 * buffer_len

\* The reads of the encode that returned bytes.
PositiveReads == SelectSeq(readLens, LAMBDA n : n > 0)

\* C14: every read that returns n > 0 bytes, short or not, last or not, is
\* followed by exactly one process call before the next read; that call's
\* input descriptor covers exactly the n bytes read, with element size 2,
\* and offers floor(n / 2) samples, and its output descriptor covers the
\* whole scratch buffer; no byte is held back for a later call.
C14_OneCallPerRead ==
    op = "encode" =>
      /\ Len(offered) =
           IF pc = "process" THEN Len(PositiveReads) - 1
           ELSE Len(PositiveReads)
      /\ Cardinality({i \in 1..Len(calls) : IsProcess(calls[i])})
           = Len(offered)
      /\ \A i \in 1..Len(offered) :
           /\ readLens[i] > 0
           /\ offered[i] = [j \in 1..readLens[i] |-> InByte(i, j)]
           /\ IsProcess(calls[1 + i])
           /\ calls[1 + i].value = readLens[i] \div 2
      /\ offered # << >> =>
           LET n == readLens[Len(offered)] IN
           /\ args.in.bytes = [j \in 1..n |-> InByte(Len(offered), j)]
           /\ args.in.bufSize = n
           /\ args.in.bufElSize = 2
           /\ args.in.numInSamples = n \div 2
           /\ args.out.bufSize = buffer_len
           /\ args.out.bufElSize = 2
      /\ pc = "process" =>
           /\ input_len = Last(readLens)
           /\ input_len > 0
           /\ SubSeq(input_buffer, 1, input_len)
                = [j \in 1..input_len |-> InByte(Len(readLens), j)]

\* a short read of odd length, not the last one, and a full read after it
\* have each had their process call
C14_Witness ==
    /\ op = "encode"
    /\ Len(offered) = 2
    /\ readLens[1] = 3
    /\ readLens[2] = buffer_len
    /\ Len(offered[1]) = 3
    /\ args.in.bufSize = buffer_len
    /\ args.in.numInSamples = 2

\* The loop of encode is running (the spec's Running state).
Running == op = "encode" /\ pc \in {"read", "process", "write"}

\* One step of a running loop, as C15 allows it.
C15_Step ==
    /\ \* an OK process call goes on to its write, whatever it reports
       (Running /\ pc = "process" /\ Last(calls').ret = AACENC_OK) =>
         /\ pc' = "write"
         /\ result' = Pending
    /\ \* a write that does not fail goes on to the next read
       (Running /\ pc = "write" /\ result'.kind # "Io") =>
         /\ pc' = "read"
         /\ result' = Pending
    /\ \* the ways out of the loop
       (Running /\ ~Running') =>
         /\ pc' = "ready"
         /\ op' = "encode"
         /\ \/ /\ pc = "read"
               /\ Last(readLens') = 0
               /\ result'.kind = "Ok"
            \/ /\ pc = "process"
               /\ Last(calls').ret = AACENC_ENCODE_EOF
               /\ result'.kind = "Ok"
            \/ /\ pc = "process"
               /\ Last(calls').ret \notin {AACENC_OK, AACENC_ENCODE_EOF}
               /\ result' = [kind |-> "FdkAac", code |-> Last(calls').ret,
                             info |-> NoInfo]
            \/ /\ pc = "read"
               /\ Last(readLens') = -1
               /\ result'.kind = "Io"
            \/ /\ pc = "write"
               /\ result'.kind = "Io"

\* C15: a process call that returns OK never ends the loop, even when it
\* reports 0 bytes produced or fewer samples consumed than offered (0
\* included): the loop writes and performs the next read.  An encode leaves
\* the loop only through a read returning 0 bytes, a LogicalEndOfStream
\* status, an engine error status, or an I/O error (of a read or a write).
C15_OkNeverEndsLoop == [][C15_Step]_vars

\* after an OK call that consumed nothing and produced nothing the loop
\* has read again and made its second call
C15_Witness ==
    /\ Running
    /\ pc = "write"
    /\ Len(reported) = 2
    /\ reported[1] = [numInSamples |-> 0, numOutBytes |-> 0]
    /\ Len(offered[1]) = buffer_len
    /\ Len(readLens) = 2

\* The aacEncInfo calls in the log of the current call.
IsInfo(c) == c.fn = "aacEncInfo"

\* C16: each encode queries the frame geometry exactly once, before its
\* first read (the log of every encode, a first one or a later one, starts
\* with its own aacEncInfo call and holds no other; nothing of an earlier
\* call is kept).  If the query fails encode returns the engine's error
\* with no read, process call or write.  Otherwise both buffers have
\* 2 x 2 x frame_length bytes, the frame length being the one that query
\* reported, they keep that size while the encode runs, and no read
\* returns, so none was asked for, more than that many bytes.
C16_GeometryOncePerEncode ==
    op = "encode" =>
      /\ calls # << >>
      /\ IsInfo(calls[1])
      /\ \A i \in 2..Len(calls) : ~IsInfo(calls[i])
      /\ calls[1].ret # AACENC_OK =>
           /\ EncodeReturned
           /\ result = [kind |-> "FdkAac", code |-> calls[1].ret,
                        info |-> NoInfo]
           /\ calls = << InfoCall(calls[1].ret) >>
           /\ readLens = << >>
           /\ offered = << >>
           /\ writes = 0
           /\ sink = << >>
      /\ calls[1].ret = AACENC_OK =>
           /\ info.frameLength \in FrameLengths
           /\ buffer_len = 2 * 2 * info.frameLength
           /\ Running =>
                /\ Len(input_buffer) = 2 * 2 * info.frameLength
                /\ Len(output_buffer) = 2 * 2 * info.frameLength
           /\ \A i \in 1..Len(readLens) :
                readLens[i] <= 2 * 2 * info.frameLength
           /\ \A i \in 1..Len(offered) :
                Len(offered[i]) <= 2 * 2 * info.frameLength

\* the loop is in its second iteration, a full read behind it
C16_Witness ==
    /\ Running
    /\ pc = "process"
    /\ Len(readLens) = 2
    /\ info.frameLength > 0
    /\ readLens[1] = 2 * 2 * info.frameLength
    /\ Len(input_buffer) = 2 * 2 * info.frameLength
    /\ calls[1] = InfoCall(AACENC_OK)

\* the geometry query of an encode failed
C16_WitnessQueryFails ==
    /\ EncodeReturned
    /\ calls = << InfoCall(AACENC_INVALID_HANDLE) >>
    /\ result.kind = "FdkAac"
    /\ readLens = << >>

\* C17: no engine call (set-parameter, commit, geometry query, process) is
\* issued on a handle after its close: the close is the last call of a
\* log, once it is issued no step that calls the engine is possible, and
\* unless the handle is open and not yet closed, Encoder::new is not
\* configuring, no encode is running and neither info nor encode can be
\* called.
C17_NoCallAfterClose ==
    /\ \A i \in 1..Len(calls) :
         calls[i].fn = "aacEncClose" => i = Len(calls)
    /\ closed > 0 =>
         /\ handle = "dropped"
         /\ ~ENABLED SetParam
         /\ ~ENABLED Commit
         /\ ~ENABLED Info
         /\ ~ENABLED EncodeBegin
         /\ ~ENABLED Process
         /\ ~ENABLED Next
    /\ ~(handle = "live" /\ opened = 1 /\ closed = 0) =>
         /\ ~Running
         /\ ~ENABLED Info
         /\ ~ENABLED EncodeBegin
         /\ ~ENABLED SetParam
         /\ ~ENABLED Commit
         /\ ~ENABLED Process

\* the Encoder was dropped after an encode: the close is behind, nothing
\* can be called
C17_Witness ==
    /\ pc = "dropped"
    /\ op = "drop"
    /\ calls = << CloseCall >>
    /\ closed = 1
    /\ result.kind = "FdkAac"
    /\ ~ENABLED Next

\* an encode has returned an error and the Encoder can be used again
C17_WitnessAlive ==
    /\ EncodeReturned
    /\ result.kind = "FdkAac"
    /\ ENABLED EncodeBegin
    /\ ENABLED Info
    /\ handle = "live"
    /\ closed = 0

\* The process calls of the encode that were offered byte b.
CallsOffered(b) ==
    {c \in 1..Len(offered) : \E k \in 1..Len(offered[c]) : offered[c][k] = b}

\* C18: every byte read from the source is offered to the engine in exactly
\* one process call, the one that directly follows its read (none before
\* that call is made), and at its own place in the chunk; when the engine
\* reports fewer samples consumed than offered, the rest is not kept and
\* is never offered again, because the next read overwrites the input
\* buffer from its start and the next descriptor covers only what that
\* read returned.
C18_OfferedExactlyOnce ==
    op = "encode" =>
      /\ \A r \in 1..Len(readLens) :
           \A j \in 1..readLens[r] :
             CallsOffered(InByte(r, j)) =
               IF r <= Len(offered) THEN {r} ELSE {}
      /\ \A c \in 1..Len(offered) :
           \A k \in 1..Len(offered[c]) : offered[c][k] = InByte(c, k)
      /\ pc = "process" =>
           /\ Len(readLens) = Len(offered) + 1
           /\ \A j \in 1..input_len :
                input_buffer[j] = InByte(Len(readLens), j)

\* the engine consumed none of the four bytes of the first read; the
\* second read was shorter, the buffer still ends with bytes of the first
\* read, and the second call was offered the two new bytes only
C18_Witness ==
    /\ Running
    /\ Len(offered) = 2
    /\ readLens = << 4, 2 >>
    /\ reported[1].numInSamples = 0
    /\ input_buffer[3] = InByte(1, 3)
    /\ offered[2] = << InByte(2, 1), InByte(2, 2) >>

(***************************************************************************)
(* Progress.  The source, the engine and the sink are called               *)
(* synchronously and each call returns: a loop that is at its read, its    *)
(* process call or its write takes that step.  Whether the caller begins   *)
(* another call or drops the Encoder is left open.  The source is finite:  *)
(* Read lets it return bytes at most MaxReads times in one encode.         *)
(***************************************************************************)
Fairness ==
    /\ WF_vars(Read)
    /\ WF_vars(Process)
    /\ WF_vars(Write)

FairSpec == Spec /\ Fairness

\* C19: with a source that after finitely many reads returns 0 bytes or an
\* error, and an engine and a sink whose calls each return, every encode
\* whose loop is running eventually returns (Ok or Err); and an encode
\* never makes more process calls than it had reads of more than 0 bytes.
C19_EncodeTerminates ==
    /\ [](op = "encode" => Len(offered) <= Len(PositiveReads))
    /\ Running ~> EncodeReturned

\* an encode has returned Ok after as many reads with bytes as the source
\* had to give, each with its process call
C19_Witness ==
    /\ EncodeReturned
    /\ result.kind = "Ok"
    /\ Len(PositiveReads) = MaxReads
    /\ Len(offered) = MaxReads
    /\ Last(readLens) = 0

=============================================================================
